---- MODULE Spec2Model ----
(***************************************************************************)
(* Lexicognize backend: the auth subsystem (users, JWT access and refresh  *)
(* tokens, password reset, API keys), the background training-job          *)
(* lifecycle and the inference endpoint, as state machines over the        *)
(* relational tables.                                                      *)
(*                                                                         *)
(* Granularity.  register, login and refresh are split at the point where  *)
(* their reads end and their first commit begins, so that concurrent       *)
(* requests interleave between the check and the insert and the database   *)
(* unique constraints are what is left to protect the tables.  The other   *)
(* request handlers are async functions without an await and are one step. *)
(* run_training_task is split at its commits and at its calls into the     *)
(* trainer.                                                                *)
(***************************************************************************)
EXTENDS Integers, Sequences, FiniteSets, TLC

\* ------------------------------------------------------------------ bounds
MaxUsers == 2
MaxTokens == 2
MaxTicks == 1
MaxInflight == 2
MaxResets == 1
MaxKeys == 2
MaxJobs == 2
MaxDatasets == 2
MaxSources == 2
MaxRows == 4
MaxIssued == 3

\* ------------------------------------------------------- program constants
ACCESS_TOKEN_EXPIRE_MINUTES == 30
REFRESH_TOKEN_EXPIRE_DAYS == 7
RESET_TOKEN_EXPIRE_HOURS == 24
VERIFY_TOKEN_EXPIRE_HOURS == 48

AccessTTL == ACCESS_TOKEN_EXPIRE_MINUTES * 60
RefreshTTL == REFRESH_TOKEN_EXPIRE_DAYS * 86400
ResetTTL == RESET_TOKEN_EXPIRE_HOURS * 3600
VerifyTTL == VERIFY_TOKEN_EXPIRE_HOURS * 3600

\* ------------------------------------------------------------ input values
NULL == 0
Emails == {"ann@x.io", "bob@x.io"}
\* raw usernames as typed by the client, before the schema validator
RawUsernames == {"ann", "Ann", "bob"}
Passwords == {"Passw0rd1", "Passw0rd2"}
\* one second, just past the life of an access token, of a refresh token
TickSteps == {1, AccessTTL + 1, RefreshTTL + 1}
\* a string that is not a JWT signed with SECRET_KEY
Garbage == [type |-> "garbage", user_id |-> 0, exp |-> 0]

VARIABLES
  now,             \* datetime.utcnow(), in seconds since the service started
  ticks,           \* number of clock advances so far (bounded)
  users,           \* table users; the row id is the index
  refresh_tokens,  \* table refresh_tokens
  reset_tokens,    \* table password_reset_tokens (a set: rows are deleted)
  next_reset,      \* next value of secrets.token_urlsafe for reset tokens
  email_tokens,    \* table email_verification_tokens
  api_keys,        \* table api_keys; id and key string are the index
  datasets,        \* table user_datasets
  jobs,            \* table training_jobs; job_id (uuid4) is the index
  tasks,           \* background tasks added by start_training
  user_models,     \* table user_models
  notified,        \* calls of EmailService.send_notification_email
  reqs,            \* requests in flight between their check and their write
  imported,        \* the sample HuggingFaceDatasetImporter formats, and its result
  translation,     \* one call of LegalTranslator.translate_text: frames, models
  resp             \* the step just taken and, when it ends a request, its response

vars == <<now, ticks, users, refresh_tokens, reset_tokens, next_reset,
          email_tokens, api_keys, datasets, jobs, tasks, user_models,
          notified, reqs, imported, translation, resp>>

authVars == <<users, refresh_tokens, reset_tokens, next_reset, email_tokens>>
trainVars == <<datasets, jobs, tasks, user_models, notified>>

\* ----------------------------------------------------------------- helpers
Slots == 1..MaxInflight
Idle == [op |-> "idle", pc |-> "idle", uid |-> 0, a |-> "", b |-> "", c |-> ""]

\* no token / no id in the request
NoTok == [type |-> "none", user_id |-> 0, exp |-> 0]

\* no email / username in the request
NoName == <<"", "">>

\* the request of the step (its token, its id or its names) and its response
RespOf(op, status, detail, tok, id, who) ==
  [op |-> op, status |-> status, detail |-> detail, tok |-> tok, id |-> id,
   who |-> who]

Resp(op, status, detail) == RespOf(op, status, detail, NoTok, 0, NoName)

RespTok(op, status, detail, tok) == RespOf(op, status, detail, tok, 0, NoName)

RespId(op, status, detail, id) == RespOf(op, status, detail, NoTok, id, NoName)

RespWho(op, status, detail, who) == RespOf(op, status, detail, NoTok, 0, who)

\* status 0: the step did not end a request
Pending(op) == Resp(op, 0, "")

\* index of the first row of a table satisfying P, or NULL: query.first()
First(table, P(_)) ==
  IF \E i \in 1..Len(table) : P(table[i])
  THEN CHOOSE i \in 1..Len(table) :
         P(table[i]) /\ \A j \in 1..(i - 1) : ~P(table[j])
  ELSE NULL

InFlight(op) == Cardinality({s \in Slots : reqs[s].op = op})

\* translate_text is not being called
NoTranslation ==
  [pc |-> "none", text |-> <<>>, source_lang |-> "", target_lang |-> "",
   stack |-> <<>>, out |-> <<>>,
   loaded |-> <<>>, invoked |-> 0, error |-> ""]

\* no sample is being imported
NoImport == [pc |-> "none", sample |-> <<>>, out |-> <<>>]

\* ------------------------------------------------- schemas.py: validators
\* UserBase.username_alphanumeric returns v.lower()
username_alphanumeric(v) == IF v = "Ann" THEN "ann" ELSE v

\* ------------------------------------------------------------ security.py
\* bcrypt is salted: the hash is an opaque value that verifies one password
get_password_hash(password) == <<"bcrypt", password>>

verify_password(plain, hashed) == hashed = <<"bcrypt", plain>>

\* jwt.encode is deterministic: equal claims give equal token strings
create_access_token(uid, t) ==
  [type |-> "access", user_id |-> uid, exp |-> t + AccessTTL]

create_refresh_token(uid, t) ==
  [type |-> "refresh", user_id |-> uid, exp |-> t + RefreshTTL]

\* mutant: the 'type' claim is not compared
verify_token_any_type(token, token_type) ==
  IF token.type = "garbage" THEN NULL
  ELSE IF token.exp < now THEN NULL
  ELSE token.user_id

\* the payload, or NULL: bad signature, expired (exp < now) or wrong type
verify_token(token, token_type) ==
  IF token.type = "garbage" THEN NULL
  ELSE IF token.exp < now THEN NULL
  ELSE IF token.type # token_type THEN NULL
  ELSE token.user_id

\* ---------------------------------------------------------------- crud.py
get_user_by_id(uid) == IF uid \in 1..Len(users) THEN uid ELSE NULL

get_user_by_email(email) == LET P(u) == u.email = email IN First(users, P)

get_user_by_username(username) ==
  LET P(u) == u.username = username IN First(users, P)

get_user_by_username_or_email(x) ==
  LET P(u) == u.username = x \/ u.email = x IN First(users, P)

get_refresh_token(token) ==
  LET P(r) == r.token = token IN First(refresh_tokens, P)

\* mutant: the columns are not declared unique
UsersNotUnique(row) == TRUE

\* models.py: users.email and users.username are unique=True
UsersUniqueOK(row) ==
  /\ \A i \in 1..Len(users) : users[i].email # row.email
  /\ \A i \in 1..Len(users) : users[i].username # row.username

\* models.py: refresh_tokens.token is unique=True
RefreshTokenUniqueOK(table, token) ==
  \A i \in 1..Len(table) : table[i].token # token

\* mutant: the lookup by email is left out
create_user_error_username_only(email, username) ==
  IF get_user_by_username(username) # NULL THEN "Username already taken"
  ELSE ""

\* the ValueError create_user raises before it inserts, or "" when it goes on
create_user_error(email, username) ==
  IF get_user_by_email(email) # NULL THEN "Email already registered"
  ELSE IF get_user_by_username(username) # NULL THEN "Username already taken"
  ELSE ""

NewUser(email, username, password) ==
  [email |-> email, username |-> username,
   hashed_password |-> get_password_hash(password),
   status |-> "active", last_login |-> NULL]

\* mutant: the presented token is left as it is
RevokeNone(table, token) == table

\* revoke_refresh_token: the first row holding the token string
RevokeOne(table, token) ==
  LET P(r) == r.token = token
      i == First(table, P)
  IN IF i = NULL THEN table ELSE [table EXCEPT ![i].is_revoked = TRUE]

\* mutant: the filter on user_id is left out
revoke_all_refresh_tokens(table, uid) ==
  [i \in 1..Len(table) |-> [table[i] EXCEPT !.is_revoked = TRUE]]

\* crud.revoke_all_user_refresh_tokens
revoke_all_user_refresh_tokens(table, uid) ==
  [i \in 1..Len(table) |->
     IF table[i].user_id = uid /\ ~table[i].is_revoked
     THEN [table[i] EXCEPT !.is_revoked = TRUE] ELSE table[i]]

NewRefreshRow(uid, token) ==
  [user_id |-> uid, token |-> token, expires_at |-> token.exp,
   is_revoked |-> FALSE]

\* mutant: a used token is found as well
get_password_reset_token_used_too(token) ==
  {r \in reset_tokens : r.token = token /\ r.expires_at > now}

\* get_password_reset_token: stored, unused, not expired
get_password_reset_token(token) ==
  {r \in reset_tokens : r.token = token /\ ~r.is_used /\ r.expires_at > now}

\* mutant: the status of the user is not looked at
get_current_user_ignoring_status(token) ==
  LET uid == verify_token(token, "access")
  IN IF uid = NULL THEN NULL
     ELSE IF get_user_by_id(uid) = NULL THEN NULL
     ELSE uid

\* get_current_user: the id of the ACTIVE user of a valid access token, or NULL
get_current_user(token) ==
  LET uid == verify_token(token, "access")
  IN IF uid = NULL THEN NULL
     ELSE IF get_user_by_id(uid) = NULL \/ users[uid].status # "active" THEN NULL
     ELSE uid

\* mutant: the lookup of the stored row is skipped
refresh_user_without_row_check(token) ==
  LET uid == verify_token(token, "refresh")
  IN IF uid = NULL THEN NULL
     ELSE IF get_user_by_id(uid) = NULL \/ users[uid].status # "active" THEN NULL
     ELSE uid

get_current_user_from_refresh_token(token) ==
  LET uid == verify_token(token, "refresh")
      i == get_refresh_token(token)
  IN IF uid = NULL THEN NULL
     ELSE IF i = NULL \/ refresh_tokens[i].is_revoked THEN NULL
     ELSE IF get_user_by_id(uid) = NULL \/ users[uid].status # "active" THEN NULL
     ELSE uid

\* ------------------------------------------------ what a client can present
\* every token pair returned by create_tokens_for_user has a stored row
IssuedRefresh == {refresh_tokens[i].token : i \in 1..Len(refresh_tokens)}

IssuedAccess ==
  {create_access_token(refresh_tokens[i].user_id,
                       refresh_tokens[i].token.exp - RefreshTTL) :
     i \in 1..Len(refresh_tokens)}

TokenInputs == IssuedRefresh \cup IssuedAccess \cup {Garbage}

\* ---------------------------------------------------------------- Init
Init ==
  /\ now = 1
  /\ ticks = 0
  /\ users = <<>>
  /\ refresh_tokens = <<>>
  /\ reset_tokens = {}
  /\ next_reset = 1
  /\ email_tokens = {}
  /\ api_keys = <<>>
  /\ datasets = <<>>
  /\ jobs = <<>>
  /\ tasks = <<>>
  /\ user_models = <<>>
  /\ notified = {}
  /\ reqs = [s \in Slots |-> Idle]
  /\ imported = NoImport
  /\ translation = NoTranslation
  /\ resp = Pending("init")

\* -------------------------------------------------- the clock (environment)
Tick(d) ==
  /\ ticks < MaxTicks
  /\ now' = now + d
  /\ ticks' = ticks + 1
  /\ resp' = Pending("tick")
  /\ UNCHANGED <<translation, imported, authVars, api_keys, trainVars, reqs>>

\* ------------------------------------------------ auth/routes.py: register
\* crud.create_user up to its two lookups
RegisterCheck(s, email, raw, password) ==
  LET username == username_alphanumeric(raw)
      err == create_user_error(email, username)
  IN /\ reqs[s].op = "idle"
     /\ err # "" \/ Len(users) + InFlight("register") < MaxUsers
     /\ IF err # ""
        THEN /\ resp' = RespWho("register", 400, err, <<email, username>>)
             /\ UNCHANGED reqs
        ELSE /\ reqs' = [reqs EXCEPT ![s] =
                           [op |-> "register", pc |-> "insert", uid |-> 0,
                            a |-> email, b |-> username, c |-> password]]
             /\ resp' = RespWho("register", 0, "", <<email, username>>)
     /\ UNCHANGED <<translation, imported, now, ticks, authVars, api_keys, trainVars>>

\* crud.create_user from db.add on, then crud.create_email_verification_token
RegisterWrite(s) ==
  LET r == reqs[s]
      row == NewUser(r.a, r.b, r.c)
      id == Len(users) + 1
  IN /\ r.op = "register"
     /\ IF UsersUniqueOK(row)
        THEN /\ users' = Append(users, row)
             /\ email_tokens' = {t \in email_tokens : t.user_id # id} \cup
                  {[user_id |-> id, expires_at |-> now + VerifyTTL]}
             /\ resp' = RespWho("register", 200, "", <<r.a, r.b>>)
        ELSE \* IntegrityError, caught by "except Exception"
             /\ resp' = RespWho("register", 500, "Registration failed",
                                 <<r.a, r.b>>)
             /\ UNCHANGED <<users, email_tokens>>
     /\ reqs' = [reqs EXCEPT ![s] = Idle]
     /\ UNCHANGED <<translation, imported, now, ticks, refresh_tokens, reset_tokens, next_reset,
                    api_keys, trainVars>>

\* --------------------------------------------------- auth/routes.py: login
\* room is the bound of the model on the refresh_tokens table
LoginAdmitted(s, x, password, room) ==
  LET uid == get_user_by_username_or_email(x)
      err == IF uid = NULL THEN 401
             ELSE IF ~verify_password(password, users[uid].hashed_password)
                  THEN 401
             ELSE IF users[uid].status # "active" THEN 403
             ELSE 0
  IN /\ reqs[s].op = "idle"
     /\ err # 0 \/ room
     /\ IF err # 0
        THEN /\ resp' = RespWho("login", err,
                                IF err = 401 THEN "Invalid credentials"
                                             ELSE "Account is not active",
                                <<x, password>>)
             /\ UNCHANGED reqs
        ELSE /\ reqs' = [reqs EXCEPT ![s] =
                           [op |-> "login", pc |-> "write", uid |-> uid,
                            a |-> x, b |-> password, c |-> ""]]
             /\ resp' = RespWho("login", 0, "", <<x, password>>)
     /\ UNCHANGED <<translation, imported, now, ticks, authVars, api_keys, trainVars>>

TokenRoom ==
  Len(refresh_tokens) + InFlight("login") + InFlight("refresh") < MaxTokens

LoginCheck(s, x, password) == LoginAdmitted(s, x, password, TokenRoom)

\* security.create_tokens_for_user: the pair of tokens and the stored row;
\* the insert raises IntegrityError when the token string is stored already
create_tokens_for_user(table, uid) ==
  LET token == create_refresh_token(uid, now)
      ok == RefreshTokenUniqueOK(table, token)
  IN [ok |-> ok, token |-> token,
      table |-> IF ok THEN Append(table, NewRefreshRow(uid, token)) ELSE table]

\* crud.update_user_last_login, then security.create_tokens_for_user
LoginWrite(s) ==
  LET r == reqs[s]
      made == create_tokens_for_user(refresh_tokens, r.uid)
  IN /\ r.op = "login"
     /\ users' = [users EXCEPT ![r.uid].last_login = now]
     /\ refresh_tokens' = made.table
     /\ resp' = IF made.ok
                THEN RespWho("login", 200, "", <<r.a, r.b>>)
                ELSE RespWho("login", 500, "Internal Server Error",
                             <<r.a, r.b>>)
     /\ reqs' = [reqs EXCEPT ![s] = Idle]
     /\ UNCHANGED <<translation, imported, now, ticks, reset_tokens, next_reset, email_tokens,
                    api_keys, trainVars>>

\* ------------------------------------------------- auth/routes.py: refresh
\* room is the bound of the model on the refresh_tokens table
RefreshAdmitted(s, token, room) ==
  LET uid == get_current_user_from_refresh_token(token)
  IN /\ reqs[s].op = "idle"
     /\ uid = NULL \/ room
     /\ IF uid = NULL
        THEN /\ resp' = RespTok("refresh", 401, "Invalid refresh token", token)
             /\ UNCHANGED reqs
        ELSE /\ reqs' = [reqs EXCEPT ![s] =
                           [op |-> "refresh", pc |-> "write", uid |-> uid,
                            a |-> token, b |-> "", c |-> ""]]
             /\ resp' = RespTok("refresh", 0, "", token)
     /\ UNCHANGED <<translation, imported, now, ticks, authVars, api_keys, trainVars>>

RefreshCheck(s, token) == RefreshAdmitted(s, token, TokenRoom)

\* security.revoke_refresh_token, then security.create_tokens_for_user
RefreshWrite(s) ==
  LET r == reqs[s]
      revoked == RevokeOne(refresh_tokens, r.a)
      made == create_tokens_for_user(revoked, r.uid)
  IN /\ r.op = "refresh"
     /\ refresh_tokens' = made.table
     /\ resp' = IF made.ok
                THEN RespTok("refresh", 200, "", r.a)
                ELSE RespTok("refresh", 500, "Internal Server Error", r.a)
     /\ reqs' = [reqs EXCEPT ![s] = Idle]
     /\ UNCHANGED <<translation, imported, now, ticks, users, reset_tokens, next_reset, email_tokens,
                    api_keys, trainVars>>

\* ------------------------------------- auth/routes.py: logout, logout-all
Logout(token) ==
  /\ refresh_tokens' = RevokeOne(refresh_tokens, token)
  /\ resp' = IF get_refresh_token(token) = NULL
             THEN RespTok("logout", 400, "Invalid refresh token", token)
             ELSE RespTok("logout", 200, "Successfully logged out", token)
  /\ UNCHANGED <<translation, imported, now, ticks, users, reset_tokens, next_reset, email_tokens,
                 api_keys, trainVars, reqs>>

\* a handler behind Depends(get_current_user) whose user is None raises
\* AttributeError at its first current_user.id
NoUser(op, token) ==
  /\ resp' = RespTok(op, 500, "Internal Server Error", token)
  /\ UNCHANGED <<translation, imported, now, ticks, authVars, api_keys, trainVars, reqs>>

LogoutAll(token) ==
  LET uid == get_current_user(token)
  IN IF uid = NULL THEN NoUser("logout_all", token)
     ELSE /\ refresh_tokens' =
               revoke_all_user_refresh_tokens(refresh_tokens, uid)
          /\ resp' = RespTok("logout_all", 200,
                             "Successfully logged out from all devices", token)
          /\ UNCHANGED <<translation, imported, now, ticks, users, reset_tokens, next_reset,
                         email_tokens, api_keys, trainVars, reqs>>

\* ------------------------------------------ auth/routes.py: change-password
ChangePassword(token, current, new) ==
  LET uid == get_current_user(token)
  IN IF uid = NULL THEN NoUser("change_password", token)
     ELSE IF ~verify_password(current, users[uid].hashed_password)
     THEN /\ resp' = RespTok("change_password", 400,
                             "Current password is incorrect", token)
          /\ UNCHANGED <<translation, imported, now, ticks, authVars, api_keys, trainVars, reqs>>
     ELSE /\ users' = [users EXCEPT
                         ![uid].hashed_password = get_password_hash(new)]
          /\ refresh_tokens' =
               revoke_all_user_refresh_tokens(refresh_tokens, uid)
          /\ resp' = RespTok("change_password", 200,
                             "Password changed successfully", token)
          /\ UNCHANGED <<translation, imported, now, ticks, reset_tokens, next_reset, email_tokens,
                         api_keys, trainVars, reqs>>

\* --------------------------- auth/routes.py: forgot-password, reset-password
\* mutant: an unknown email is answered 404
ForgotRevealing(email, room) ==
  LET uid == get_user_by_email(email)
  IN /\ uid = NULL
     /\ resp' = RespWho("forgot_password", 404, "User not found",
                         <<email, "">>)
     /\ UNCHANGED <<translation, imported, now, ticks, authVars, api_keys, trainVars, reqs>>

\* room is the bound of the model on the reset tokens ever issued
ForgotAdmitted(email, room) ==
  LET uid == get_user_by_email(email)
      msg == "If the email exists, a reset link will be sent"
  IN /\ uid = NULL \/ room
     /\ resp' = RespWho("forgot_password", 200, msg, <<email, "">>)
     /\ IF uid = NULL
        THEN UNCHANGED <<reset_tokens, next_reset>>
        ELSE \* crud.create_password_reset_token
             /\ reset_tokens' = {r \in reset_tokens : r.user_id # uid} \cup
                  {[user_id |-> uid, token |-> next_reset,
                    expires_at |-> now + ResetTTL, is_used |-> FALSE]}
             /\ next_reset' = next_reset + 1
     /\ UNCHANGED <<translation, imported, now, ticks, users, refresh_tokens, email_tokens, api_keys,
                    trainVars, reqs>>

ForgotPassword(email) == ForgotAdmitted(email, next_reset <= MaxResets)

ResetPassword(token, new) ==
  LET found == get_password_reset_token(token)
  IN IF found = {}
     THEN /\ resp' = RespOf("reset_password", 400,
                            "Invalid or expired reset token", NoTok, token,
                            <<"", new>>)
          /\ UNCHANGED <<translation, imported, now, ticks, authVars, api_keys, trainVars, reqs>>
     ELSE LET row == CHOOSE r \in found : TRUE
          IN /\ users' = [users EXCEPT ![row.user_id].hashed_password =
                                          get_password_hash(new)]
             \* crud.use_password_reset_token
             /\ reset_tokens' = (reset_tokens \ {row}) \cup
                                  {[row EXCEPT !.is_used = TRUE]}
             /\ refresh_tokens' =
                  revoke_all_user_refresh_tokens(refresh_tokens, row.user_id)
             /\ resp' = RespOf("reset_password", 200,
                               "Password reset successfully", NoTok, token,
                               <<"", new>>)
             /\ UNCHANGED <<translation, imported, now, ticks, next_reset, email_tokens, api_keys,
                            trainVars, reqs>>

\* ------------------------------------------------- crud.py: delete_user
DeleteUser(uid) ==
  /\ resp' = RespId("delete_user",
                    IF get_user_by_id(uid) = NULL THEN 404 ELSE 200, "", uid)
  /\ users' = IF get_user_by_id(uid) = NULL THEN users
              ELSE [users EXCEPT ![uid].status = "inactive"]
  /\ UNCHANGED <<translation, imported, now, ticks, refresh_tokens, reset_tokens, next_reset,
                 email_tokens, api_keys, trainVars, reqs>>

\* ------------------------------------------------- auth/routes.py: API keys
\* crud.create_api_key: the key string is random, expires_at is never set
CreateApiKey(token) ==
  LET uid == get_current_user(token)
  IN IF uid = NULL THEN NoUser("create_api_key", token)
     ELSE /\ Len(api_keys) < MaxKeys
          /\ api_keys' = Append(api_keys,
               [user_id |-> uid, key |-> Len(api_keys) + 1, is_active |-> TRUE,
                expires_at |-> NULL, last_used |-> NULL])
          /\ resp' = RespOf("create_api_key", 200, "", token,
                            Len(api_keys) + 1, NoName)
          /\ UNCHANGED <<translation, imported, now, ticks, authVars, trainVars, reqs>>

\* crud.revoke_api_key: the row with this id and this owner, or NULL
OwnedApiKey(api_key_id, uid) ==
  IF api_key_id \in 1..Len(api_keys) /\ api_keys[api_key_id].user_id = uid
  THEN api_key_id ELSE NULL

RevokeApiKey(token, api_key_id) ==
  LET uid == get_current_user(token)
      k == OwnedApiKey(api_key_id, uid)
  IN IF uid = NULL THEN NoUser("revoke_api_key", token)
     ELSE IF k = NULL
     THEN /\ resp' = RespOf("revoke_api_key", 404, "API key not found",
                            token, api_key_id, NoName)
          /\ UNCHANGED <<translation, imported, now, ticks, authVars, api_keys, trainVars, reqs>>
     ELSE /\ api_keys' = [api_keys EXCEPT ![k].is_active = FALSE]
          /\ resp' = RespOf("revoke_api_key", 200,
                            "API key revoked successfully", token, api_key_id,
                            NoName)
          /\ UNCHANGED <<translation, imported, now, ticks, authVars, trainVars, reqs>>

\* mutant: the is_active filter is left out
get_api_key_by_key_any(key) ==
  LET P(k) == k.key = key IN First(api_keys, P)

\* crud.get_api_key_by_key: the first active row holding the key string
get_api_key_by_key(key) ==
  LET P(k) == k.key = key /\ k.is_active IN First(api_keys, P)

\* middleware/api_key_auth.py: [status, detail, uid]; uid is the user returned.
\* The module never imports datetime, so the expiry comparison raises
\* NameError as soon as a row has an expires_at.
api_key_auth(key) ==
  LET k == get_api_key_by_key(key)
  IN IF key = NULL THEN [status |-> 200, detail |-> "None", uid |-> NULL]
     ELSE IF k = NULL
     THEN [status |-> 401, detail |-> "Invalid API key", uid |-> NULL]
     ELSE IF api_keys[k].expires_at # NULL
     THEN [status |-> 500, detail |-> "NameError", uid |-> NULL]
     ELSE IF get_user_by_id(api_keys[k].user_id) = NULL
             \/ users[api_keys[k].user_id].status # "active"
     THEN [status |-> 401, detail |-> "User not found or inactive",
           uid |-> NULL]
     ELSE [status |-> 200, detail |-> "", uid |-> api_keys[k].user_id]

ApiKeyAuth(key) ==
  LET out == api_key_auth(key)
  IN /\ resp' = RespOf("api_key_auth", out.status, out.detail, NoTok, key,
                       IF out.uid = NULL THEN NoName
                       ELSE <<users[out.uid].email, users[out.uid].username>>)
     /\ api_keys' = IF out.uid # NULL
                    THEN \* crud.update_api_key_last_used
                         [api_keys EXCEPT ![get_api_key_by_key(key)].last_used = now]
                    ELSE api_keys
     /\ UNCHANGED <<translation, imported, now, ticks, authVars, trainVars, reqs>>

\* ------------------------------------------------ routes/datasets.py: upload
UploadDataset(token) ==
  LET uid == get_current_user(token)
  IN IF uid = NULL THEN NoUser("upload_dataset", token)
     ELSE /\ Len(datasets) < MaxDatasets
          /\ datasets' = Append(datasets, [user_id |-> uid])
          /\ resp' = Resp("upload_dataset", 200, "")
          /\ UNCHANGED <<translation, imported, now, ticks, authVars, api_keys, jobs, tasks,
                         user_models, notified, reqs>>

\* ------------------------------------- auth_crud helpers used by training.py
get_user_dataset(dataset_id, uid) ==
  IF dataset_id \in 1..Len(datasets) /\ datasets[dataset_id].user_id = uid
  THEN dataset_id ELSE NULL

get_training_job_by_id(table, job_id) ==
  LET P(j) == j.job_id = job_id IN First(table, P)

get_training_job(job_id, uid) ==
  LET P(j) == j.job_id = job_id /\ j.user_id = uid IN First(jobs, P)

get_user_model_by_path(model_path, uid) ==
  LET P(m) == m.model_path = model_path /\ m.user_id = uid
  IN First(user_models, P)

\* models.py: training_jobs.job_id is unique=True
JobIdUniqueOK(job_id) == \A i \in 1..Len(jobs) : jobs[i].job_id # job_id

\* str(uuid.uuid4()): a value no earlier call returned
uuid4 == Len(jobs) + 1

\* f"data/models/{model_type}_{task}_{job_id}"
output_dir(job_id) == job_id

\* mutant: the row is stored as running
NewJobRunning(uid, job_id, dataset_id) ==
  [user_id |-> uid, job_id |-> job_id, dataset_id |-> dataset_id,
   status |-> "running", progress |-> 0, error_message |-> "",
   metrics |-> "", model_path |-> NULL,
   started_at |-> NULL, completed_at |-> NULL, updated_at |-> NULL]

\* the row create_training_job stores
NewJob(uid, job_id, dataset_id) ==
  [user_id |-> uid, job_id |-> job_id, dataset_id |-> dataset_id,
   status |-> "pending", progress |-> 0, error_message |-> "",
   metrics |-> "", model_path |-> NULL,
   started_at |-> NULL, completed_at |-> NULL, updated_at |-> NULL]

\* background_tasks.add_task(run_training_task, job_id=..., user_id=...)
NewTask(job_id, uid) ==
  [job_id |-> job_id, user_id |-> uid, pc |-> "start", exc |-> "",
   session |-> "open"]

\* mutant: the task is scheduled again as a retry
add_task_with_retry(queue, job_id, uid) ==
  Append(Append(queue, NewTask(job_id, uid)), NewTask(job_id, uid))

add_task(queue, job_id, uid) == Append(queue, NewTask(job_id, uid))

\* ----------------------------------------------- routes/training.py: start
\* jobs of a user the task of which may still be waiting or running
ActiveJobs(uid) ==
  {j \in 1..Len(jobs) :
     jobs[j].user_id = uid /\ jobs[j].status \in {"pending", "running"}}

\* mutant: a user with a job pending or running is refused
start_training_one_at_a_time(uid, dataset_id) ==
  IF get_user_dataset(dataset_id, uid) = NULL
  THEN [status |-> 404, detail |-> "Dataset not found"]
  ELSE IF ActiveJobs(uid) # {}
  THEN [status |-> 429, detail |-> "Too many training jobs"]
  ELSE [status |-> 200, detail |-> "Training started"]

\* the only reason start_training refuses a request: the dataset lookup
start_training_admission(uid, dataset_id) ==
  IF get_user_dataset(dataset_id, uid) = NULL
  THEN [status |-> 404, detail |-> "Dataset not found"]
  ELSE [status |-> 200, detail |-> "Training started"]

StartTraining(token, dataset_id) ==
  LET uid == get_current_user(token)
      job_id == uuid4
      out == start_training_admission(uid, dataset_id)
  IN IF uid = NULL THEN NoUser("start_training", token)
     ELSE IF out.status # 200
     THEN /\ resp' = RespOf("start_training", out.status, out.detail, token,
                            dataset_id, NoName)
          /\ UNCHANGED <<translation, imported, now, ticks, authVars, api_keys, trainVars, reqs>>
     ELSE /\ Len(jobs) < MaxJobs
          /\ IF JobIdUniqueOK(job_id)
             THEN /\ jobs' = Append(jobs, NewJob(uid, job_id, dataset_id))
                  /\ tasks' = add_task(tasks, job_id, uid)
                  /\ resp' = RespOf("start_training", out.status, out.detail,
                                    token, dataset_id, NoName)
             ELSE /\ resp' = RespOf("start_training", 500,
                                    "Internal Server Error", token, dataset_id,
                                    NoName)
                  /\ UNCHANGED <<jobs, tasks>>
          /\ UNCHANGED <<translation, imported, now, ticks, authVars, api_keys, datasets,
                         user_models, notified, reqs>>

\* ---------------------------------------------- routes/training.py: cancel
\* mutant: the status of the job is not looked at
CancelAnyStatus(token, job_id) ==
  LET uid == get_current_user(token)
      j == get_training_job(job_id, uid)
  IN /\ uid # NULL
     /\ j # NULL
     /\ jobs' = [jobs EXCEPT ![j].status = "cancelled",
                             ![j].updated_at = now]
     /\ resp' = RespOf("cancel_training_job", 200,
                       "Training job cancelled", token, job_id, NoName)
     /\ UNCHANGED <<translation, imported, now, ticks, authVars, api_keys, datasets, tasks,
                    user_models, notified, reqs>>

CancelTrainingJob(token, job_id) ==
  LET uid == get_current_user(token)
      j == get_training_job(job_id, uid)
  IN IF uid = NULL THEN NoUser("cancel_training_job", token)
     ELSE IF j = NULL
     THEN /\ resp' = RespOf("cancel_training_job", 404,
                            "Training job not found", token, job_id, NoName)
          /\ UNCHANGED <<translation, imported, now, ticks, authVars, api_keys, trainVars, reqs>>
     ELSE IF jobs[j].status \notin {"pending", "running"}
     THEN /\ resp' = RespOf("cancel_training_job", 400,
                            "Cannot cancel job with status: " \o jobs[j].status,
                            token, job_id, NoName)
          /\ UNCHANGED <<translation, imported, now, ticks, authVars, api_keys, trainVars, reqs>>
     ELSE /\ jobs' = [jobs EXCEPT ![j].status = "cancelled",
                                  ![j].updated_at = now]
          /\ resp' = RespOf("cancel_training_job", 200,
                            "Training job cancelled", token, job_id, NoName)
          /\ UNCHANGED <<translation, imported, now, ticks, authVars, api_keys, datasets, tasks,
                         user_models, notified, reqs>>

\* ---------------------------------- routes/training.py: run_training_task
\* The task is split at its commits. It holds no await, so on one event loop
\* it runs without interruption once started; with several worker processes
\* the requests of other workers fall between its steps.
\* status of the job row a task step finds, "" when there is no row
FoundStatus(t) ==
  LET j == get_training_job_by_id(jobs, tasks[t].job_id)
  IN IF j = NULL THEN "" ELSE jobs[j].status

\* a task step is no response: status 0, with the job status it found
TaskResp(op, t) == RespId(op, 0, FoundStatus(t), tasks[t].job_id)

TaskAt(t, pc) == t \in 1..Len(tasks) /\ tasks[t].pc = pc

Goto(t, pc) == [tasks EXCEPT ![t].pc = pc]

Raise(t, text) == [tasks EXCEPT ![t].pc = "except", ![t].exc = text]

\* mutant: a cancelled job is left alone
MarkRunning_unless_cancelled(table, job_id) ==
  LET j == get_training_job_by_id(table, job_id)
  IN IF j = NULL \/ table[j].status = "cancelled" THEN table
     ELSE [table EXCEPT ![j].status = "running", ![j].started_at = now,
                        ![j].updated_at = now]

\* lines 171-176: the job is marked running
MarkRunning(table, job_id) ==
  LET j == get_training_job_by_id(table, job_id)
  IN IF j = NULL THEN table
     ELSE [table EXCEPT ![j].status = "running", ![j].started_at = now,
                        ![j].updated_at = now]

TaskStart(t) ==
  /\ TaskAt(t, "start")
  /\ jobs' = MarkRunning(jobs, tasks[t].job_id)
  /\ tasks' = Goto(t, "train")
  /\ resp' = TaskResp("task_start", t)
  /\ UNCHANGED <<translation, imported, now, ticks, authVars, api_keys, datasets, user_models,
                 notified, reqs>>

\* lines 178-236: open and json.load, trainer construction, data
\* preparation, makedirs and trainer.train; any of them may raise
TrainOutcomes ==
  {"ok", "FileNotFoundError", "prepare_data failed", "train failed"}

TaskTrain(t, outcome) ==
  /\ TaskAt(t, "train")
  /\ tasks' = IF outcome = "ok" THEN Goto(t, "complete") ELSE Raise(t, outcome)
  /\ resp' = TaskResp("task_train", t)
  /\ UNCHANGED <<translation, imported, now, ticks, authVars, api_keys, datasets, jobs, user_models,
                 notified, reqs>>

\* mutant: the results are not stored with the status
MarkCompleted_without_results(table, job_id) ==
  LET j == get_training_job_by_id(table, job_id)
  IN IF j = NULL THEN table
     ELSE [table EXCEPT ![j].status = "completed", ![j].completed_at = now,
                        ![j].progress = 100, ![j].updated_at = now]

\* lines 239-246: the job is marked completed with its results
MarkCompleted(table, job_id) ==
  LET j == get_training_job_by_id(table, job_id)
  IN IF j = NULL THEN table
     ELSE [table EXCEPT ![j].status = "completed", ![j].completed_at = now,
                        ![j].metrics = "metrics",
                        ![j].model_path = output_dir(job_id),
                        ![j].progress = 100, ![j].updated_at = now]

TaskComplete(t) ==
  /\ TaskAt(t, "complete")
  /\ jobs' = MarkCompleted(jobs, tasks[t].job_id)
  /\ tasks' = IF get_training_job_by_id(jobs, tasks[t].job_id) = NULL
              THEN Goto(t, "finally") ELSE Goto(t, "register")
  /\ resp' = TaskResp("task_complete", t)
  /\ UNCHANGED <<translation, imported, now, ticks, authVars, api_keys, datasets, user_models,
                 notified, reqs>>

\* lines 248-264: auth_crud.create_user_model, which may raise
TaskRegister(t, ok) ==
  /\ TaskAt(t, "register")
  /\ IF ok
     THEN /\ user_models' = Append(user_models,
               [user_id |-> tasks[t].user_id,
                model_path |-> output_dir(tasks[t].job_id),
                training_job_id |->
                  get_training_job_by_id(jobs, tasks[t].job_id)])
          /\ tasks' = Goto(t, "notify")
     ELSE /\ tasks' = Raise(t, "create_user_model failed")
          /\ UNCHANGED user_models
  /\ resp' = TaskResp("task_register", t)
  /\ UNCHANGED <<translation, imported, now, ticks, authVars, api_keys, datasets, jobs, notified,
                 reqs>>

\* lines 266-279: the completion email (send_email swallows its own errors)
TaskNotify(t) ==
  /\ TaskAt(t, "notify")
  /\ notified' = notified \cup
       {[job_id |-> tasks[t].job_id, type |-> "training_completed"]}
  /\ tasks' = Goto(t, "finally")
  /\ resp' = TaskResp("task_notify", t)
  /\ UNCHANGED <<translation, imported, now, ticks, authVars, api_keys, datasets, jobs, user_models,
                 reqs>>

\* mutant: the except branch stores the text but not the status
MarkFailed_keeps_status(table, job_id, text) ==
  LET j == get_training_job_by_id(table, job_id)
  IN IF j = NULL THEN table
     ELSE [table EXCEPT ![j].error_message = text,
                        ![j].completed_at = now, ![j].updated_at = now]

\* mutant: the exception text is not stored
MarkFailed_without_message(table, job_id, text) ==
  LET j == get_training_job_by_id(table, job_id)
  IN IF j = NULL THEN table
     ELSE [table EXCEPT ![j].status = "failed",
                        ![j].completed_at = now, ![j].updated_at = now]

\* lines 281-302: the except branch
MarkFailed(table, job_id, text) ==
  LET j == get_training_job_by_id(table, job_id)
  IN IF j = NULL THEN table
     ELSE [table EXCEPT ![j].status = "failed", ![j].error_message = text,
                        ![j].completed_at = now, ![j].updated_at = now]

TaskExcept(t) ==
  /\ TaskAt(t, "except")
  /\ jobs' = MarkFailed(jobs, tasks[t].job_id, tasks[t].exc)
  /\ notified' = notified \cup
       {[job_id |-> tasks[t].job_id, type |-> "training_failed"]}
  /\ tasks' = Goto(t, "finally")
  /\ resp' = TaskResp("task_except", t)
  /\ UNCHANGED <<translation, imported, now, ticks, authVars, api_keys, datasets, user_models, reqs>>

\* lines 304-307: finally db.close(), then "raise e" leaves the function
TaskFinally(t) ==
  /\ TaskAt(t, "finally")
  /\ tasks' = [tasks EXCEPT ![t].session = "closed",
                            ![t].pc = IF tasks[t].exc = "" THEN "done"
                                      ELSE "raised"]
  /\ resp' = TaskResp("task_finally", t)
  /\ UNCHANGED <<translation, imported, now, ticks, authVars, api_keys, datasets, jobs, user_models,
                 notified, reqs>>

\* the next step of the task of a job, whichever it is
TaskStep(t) ==
  \/ TaskStart(t)
  \/ \E o \in TrainOutcomes : TaskTrain(t, o)
  \/ TaskComplete(t)
  \/ \E ok \in BOOLEAN : TaskRegister(t, ok)
  \/ TaskNotify(t)
  \/ TaskExcept(t)
  \/ TaskFinally(t)

\* ------------------------------------------- routes/inference.py: generate
\* [status, detail] of generate_summary: found is the user's model row,
\* exists is os.path.exists(model_path), ok is whether generation succeeds.
\* The HTTPException(404) raised inside the try block is an Exception, so the
\* handler's own "except Exception" turns it into a 500.
generate_summary(found, exists, ok) ==
  IF found = NULL
  THEN [status |-> 500, detail |->
          "Error generating summary: 404: Model not found or access denied"]
  ELSE IF ~exists
  THEN [status |-> 500, detail |->
          "Error generating summary: 404: Model file not found"]
  ELSE IF ~ok
  THEN [status |-> 500, detail |-> "Error generating summary: generation failed"]
  ELSE [status |-> 200, detail |-> ""]

GenerateSummary(token, model_path, exists, ok) ==
  LET uid == get_current_user(token)
      found == get_user_model_by_path(model_path, uid)
      out == generate_summary(found, exists, ok)
  IN IF uid = NULL THEN NoUser("generate_summary", token)
     ELSE /\ resp' = RespOf("generate_summary", out.status, out.detail,
                            token, model_path, NoName)
          /\ UNCHANGED <<translation, imported, now, ticks, authVars, api_keys, trainVars, reqs>>

\* ------------------------------- utils/huggingface_importer.py: one sample
\* texts are sequences of characters
SourceTexts ==
  { <<>>,
    <<"a", "b", "c", "d">>,
    <<"e", "f", "g", "h", "i">>,
    <<"l", "e", "g", "a", "l", " ", "d", "o", "c", "s">> }

SourceLists ==
  UNION {[1..n -> SourceTexts] : n \in 0..MaxSources}

\* a multi_lexsum row: "sources" is a list of texts or, when is_list is
\* FALSE, a single text; a missing key reads as ""
LexsumSamples ==
  {[dataset_id |-> "multi_lexsum", is_list |-> TRUE, sources |-> l,
    raw |-> <<>>, long |-> a, short |-> b, tiny |-> c,
    document |-> <<>>, summary |-> ""] :
     l \in SourceLists, a \in {"", "long"}, b \in {"", "short"},
     c \in {"", "tiny"}}
  \cup
  {[dataset_id |-> "multi_lexsum", is_list |-> FALSE, sources |-> <<>>,
    raw |-> t, long |-> a, short |-> "short", tiny |-> "",
    document |-> <<>>, summary |-> ""] :
     t \in SourceTexts, a \in {"", "long"}}

XsumSamples ==
  {[dataset_id |-> "xsum", is_list |-> TRUE, sources |-> <<>>,
    raw |-> <<>>, long |-> "", short |-> "", tiny |-> "",
    document |-> t, summary |-> m] :
     t \in SourceTexts, m \in {"", "summary"}}

Samples == LexsumSamples \cup XsumSamples

\* " ".join(sources)
RECURSIVE Join(_)
Join(list) ==
  IF Len(list) = 0 THEN <<>>
  ELSE IF Len(list) = 1 THEN list[1]
  ELSE list[1] \o <<" ">> \o Join(Tail(list))

\* a or b, on strings
Or(a, b) == IF a # "" THEN a ELSE b

\* the dictionary _format_sample builds before its final test
formatted(sample, dataset_id) ==
  IF dataset_id = "xsum"
  THEN [source_dataset |-> dataset_id, imported_at |-> now,
        text |-> sample.document, summary |-> sample.summary,
        simplified |-> sample.summary]
  ELSE [source_dataset |-> dataset_id, imported_at |-> now,
        text |-> IF sample.is_list /\ Len(sample.sources) > 0
                 THEN Join(sample.sources)
                 ELSE IF sample.is_list THEN <<>> ELSE sample.raw,
        summary |-> Or(sample.long, Or(sample.short, sample.tiny)),
        summary_long |-> sample.long, summary_short |-> sample.short,
        summary_tiny |-> sample.tiny,
        category |-> "legal",
        sources_count |-> IF sample.is_list THEN Len(sample.sources) ELSE 1]

\* mutant: a text of exactly 10 characters is dropped as well
format_sample_over_10(sample, dataset_id) ==
  LET f == formatted(sample, dataset_id)
  IN IF Len(f.text) = 0 \/ Len(f.text) <= 10 THEN <<>> ELSE <<f>>

\* _format_sample: <<>> is None, <<f>> is the dictionary f
format_sample(sample, dataset_id) ==
  LET f == formatted(sample, dataset_id)
  IN IF Len(f.text) = 0 \/ Len(f.text) < 10 THEN <<>> ELSE <<f>>

\* import_dataset: one pass of its loop body
FormatSample ==
  /\ imported.pc = "sample"
  /\ imported' = [imported EXCEPT
                    !.pc = "formatted",
                    !.out = format_sample(imported.sample,
                                          imported.sample.dataset_id)]
  /\ resp' = Pending("format_sample")
  /\ UNCHANGED <<translation, now, ticks, authVars, api_keys, trainVars, reqs>>

\* ------------------------------ utils/translator.py: LegalTranslator
Languages == {"en", "hi", "ta", "kn", "te", "ml", "bn", "mr", "gu"}

\* the languages of TRANSLATION_MODELS and one it does not know
LanguageInputs == Languages \cup {"fr"}

\* a text is the input followed by the models it went through
TextInputs == {<<>>, <<"deed">>}

DirectPairs ==
  {<<"en", l>> : l \in Languages \ {"en"}} \cup
  {<<l, "en">> : l \in Languages \ {"en"}}

PivotPairs ==
  {<<a, b>> : a, b \in {"hi", "ta", "kn"}} \ {<<l, l>> : l \in Languages}

\* f"{src_lang}-{tgt_lang}"
get_model_key(src_lang, tgt_lang) == src_lang \o "-" \o tgt_lang

\* mutant: the entry 'hi-en' is marked 'pivot' as well
TRANSLATION_MODELS_pivot_leg ==
  [p \in DirectPairs \cup PivotPairs |->
     IF p \in PivotPairs \cup {<<"hi", "en">>} THEN "pivot"
     ELSE "Helsinki-NLP/opus-mt-" \o get_model_key(p[1], p[2])]

\* the dictionary, keyed by the pair instead of the joined string
TRANSLATION_MODELS ==
  [p \in DirectPairs \cup PivotPairs |->
     IF p \in PivotPairs THEN "pivot"
     ELSE "Helsinki-NLP/opus-mt-" \o get_model_key(p[1], p[2])]

\* a call of translate_text on the stack; at is where it stands
Frame(text, source_lang, target_lang) ==
  [text |-> text, source_lang |-> source_lang, target_lang |-> target_lang,
   at |-> "enter"]

Top == translation.stack[Len(translation.stack)]

Below == SubSeq(translation.stack, 1, Len(translation.stack) - 1)

\* the top frame returns value to the frame below it: after the first leg
\* the caller starts the second, after the second the caller returns too
RECURSIVE Return(_, _)
Return(stack, value) ==
  IF Len(stack) = 0
  THEN [translation EXCEPT !.pc = "returned", !.stack = <<>>,
                           !.out = <<value>>]
  ELSE LET caller == stack[Len(stack)]
           rest == SubSeq(stack, 1, Len(stack) - 1)
       IN IF caller.at = "leg1"
          THEN [translation EXCEPT
                  !.stack = Append(Append(rest, [caller EXCEPT !.at = "leg2"]),
                                   Frame(value, "en", caller.target_lang))]
          ELSE Return(rest, value)

\* an exception leaves every frame: the recursive calls stand outside the
\* try, and the except of the direct branch raises again
Raised(error) ==
  [translation EXCEPT !.pc = "raised", !.stack = <<>>, !.error = error]

\* translate_text up to the model: the three tests and the pivot's first call
TranslateEnter ==
  LET f == Top
      key == <<f.source_lang, f.target_lang>>
  IN /\ translation.pc = "run"
     /\ f.at = "enter"
     /\ translation' =
          IF f.source_lang = f.target_lang THEN Return(Below, f.text)
          ELSE IF key \notin DOMAIN TRANSLATION_MODELS
          THEN Raised("Translation not supported for "
                      \o get_model_key(key[1], key[2]))
          ELSE IF TRANSLATION_MODELS[key] = "pivot"
          THEN [translation EXCEPT
                  !.stack = Append(Append(Below, [f EXCEPT !.at = "leg1"]),
                                   Frame(f.text, f.source_lang, "en"))]
          ELSE [translation EXCEPT
                  !.stack = Append(Below, [f EXCEPT !.at = "load"])]
     /\ resp' = Pending("translate_text")
     /\ UNCHANGED <<imported, now, ticks, authVars, api_keys, trainVars, reqs>>

\* load_model: from_pretrained gives the model or raises
TranslateLoad(ok) ==
  LET f == Top
      name == TRANSLATION_MODELS[<<f.source_lang, f.target_lang>>]
      asked == [translation EXCEPT !.loaded = Append(@, name)]
  IN /\ translation.pc = "run"
     /\ f.at = "load"
     /\ translation' =
          IF ok
          THEN [asked EXCEPT !.stack = Append(Below, [f EXCEPT !.at = "generate"])]
          ELSE [asked EXCEPT !.pc = "raised", !.stack = <<>>,
                             !.error = "load_model"]
     /\ resp' = Pending("load_model")
     /\ UNCHANGED <<imported, now, ticks, authVars, api_keys, trainVars, reqs>>

\* tokenizer, model.generate, decode: a translated text or an exception
TranslateGenerate(ok) ==
  LET f == Top
      name == TRANSLATION_MODELS[<<f.source_lang, f.target_lang>>]
      back == Return(Below, Append(f.text, name))
  IN /\ translation.pc = "run"
     /\ f.at = "generate"
     /\ translation' =
          IF ok
          THEN [back EXCEPT !.invoked = @ + 1]
          ELSE [translation EXCEPT !.pc = "raised", !.stack = <<>>,
                                   !.error = "generate", !.invoked = @ + 1]
     /\ resp' = Pending("generate")
     /\ UNCHANGED <<imported, now, ticks, authVars, api_keys, trainVars, reqs>>

\* ------------------------------------------------------------ specifications
\* an email, a username and a name of nobody (usernames are stored lower-case)
SessionLoginNames == {"ann@x.io", "bob", "Ann"}
ResetInputs == 0..MaxResets
KeyInputs == 0..MaxKeys
JobInputs == 0..MaxJobs
DatasetInputs == 0..MaxDatasets
RegisterPasswords == {"Passw0rd1"}

\* a single worker process: a request runs to its response before the next
AllIdle == \A s \in Slots : reqs[s].op = "idle"

AllBusy == \A s \in Slots : reqs[s].op # "idle"

\* the database after ann and bob registered
SeedUsers ==
  <<NewUser("ann@x.io", "ann", "Passw0rd1"),
    NewUser("bob@x.io", "bob", "Passw0rd1")>>

SeedEmailTokens ==
  {[user_id |-> u, expires_at |-> 1 + VerifyTTL] : u \in 1..2}

\* ... and after both logged in and uploaded a dataset, all in second 1
SeedLoggedIn == [u \in 1..2 |-> [SeedUsers[u] EXCEPT !.last_login = 1]]

SeedRefreshTokens ==
  [u \in 1..2 |-> NewRefreshRow(u, create_refresh_token(u, 1))]

SeedDatasets == [u \in 1..2 |-> [user_id |-> u]]

InitRegistered ==
  /\ now = 1
  /\ ticks = 0
  /\ users = SeedUsers
  /\ refresh_tokens = <<>>
  /\ reset_tokens = {}
  /\ next_reset = 1
  /\ email_tokens = SeedEmailTokens
  /\ api_keys = <<>>
  /\ datasets = <<>>
  /\ jobs = <<>>
  /\ tasks = <<>>
  /\ user_models = <<>>
  /\ notified = {}
  /\ reqs = [s \in Slots |-> Idle]
  /\ imported = NoImport
  /\ translation = NoTranslation
  /\ resp = Pending("init")

InitLoggedIn ==
  /\ now = 1
  /\ ticks = 0
  /\ users = SeedLoggedIn
  /\ refresh_tokens = SeedRefreshTokens
  /\ reset_tokens = {}
  /\ next_reset = 1
  /\ email_tokens = SeedEmailTokens
  /\ api_keys = <<>>
  /\ datasets = SeedDatasets
  /\ jobs = <<>>
  /\ tasks = <<>>
  /\ user_models = <<>>
  /\ notified = {}
  /\ reqs = [s \in Slots |-> Idle]
  /\ imported = NoImport
  /\ translation = NoTranslation
  /\ resp = Pending("init")

\* sessions of registered users, one request at a time
NextAuth ==
  \/ \E d \in TickSteps : Tick(d)
  \/ \E x \in SessionLoginNames, p \in Passwords :
       AllIdle /\ LoginCheck(1, x, p)
  \/ LoginWrite(1)
  \/ \E tok \in TokenInputs : AllIdle /\ RefreshCheck(1, tok)
  \/ RefreshWrite(1)
  \/ \E tok \in TokenInputs : AllIdle /\ Logout(tok)
  \/ \E tok \in TokenInputs : AllIdle /\ LogoutAll(tok)
  \/ \E tok \in TokenInputs, p \in Passwords, q \in Passwords :
       AllIdle /\ ChangePassword(tok, p, q)
  \/ \E e \in Emails : AllIdle /\ ForgotPassword(e)
  \/ \E r \in ResetInputs, p \in Passwords : AllIdle /\ ResetPassword(r, p)

SpecAuth == InitRegistered /\ [][NextAuth]_vars

\* accounts that get deactivated, and every way in: password, refresh token,
\* access token, API key; one request at a time
NextDeleted ==
  \/ \E x \in SessionLoginNames, p \in Passwords :
       AllIdle /\ LoginCheck(1, x, p)
  \/ LoginWrite(1)
  \/ \E tok \in TokenInputs : AllIdle /\ RefreshCheck(1, tok)
  \/ RefreshWrite(1)
  \/ \E tok \in TokenInputs : AllIdle /\ LogoutAll(tok)
  \/ \E tok \in TokenInputs : AllIdle /\ CreateApiKey(tok)
  \/ \E k \in KeyInputs : AllIdle /\ ApiKeyAuth(k)
  \/ \E uid \in 1..MaxUsers : AllIdle /\ DeleteUser(uid)

SpecDeleted == InitRegistered /\ [][NextDeleted]_vars

\* a login whose refresh token string is stored already adds no row
LoginCollides(x) ==
  LET uid == get_user_by_username_or_email(x)
  IN /\ uid # NULL
     /\ ~RefreshTokenUniqueOK(refresh_tokens, create_refresh_token(uid, now))

\* logins and refreshes over time, of active and of deactivated users
NextLogin ==
  \/ Tick(1)
  \/ \E x \in SessionLoginNames, p \in Passwords :
       AllIdle /\ LoginAdmitted(1, x, p, TokenRoom \/ LoginCollides(x))
  \/ LoginWrite(1)
  \/ \E tok \in TokenInputs : AllIdle /\ RefreshCheck(1, tok)
  \/ RefreshWrite(1)
  \/ \E uid \in 1..MaxUsers : AllIdle /\ DeleteUser(uid)

SpecLogin == InitRegistered /\ [][NextLogin]_vars

\* both users logged in: their sessions refreshed and ended over time
RowsRoom == Len(refresh_tokens) < MaxRows

NextSessions ==
  \/ Tick(1)
  \/ \E tok \in TokenInputs : AllIdle /\ RefreshAdmitted(1, tok, RowsRoom)
  \/ RefreshWrite(1)
  \/ \E tok \in TokenInputs : AllIdle /\ Logout(tok)
  \/ \E tok \in TokenInputs : AllIdle /\ LogoutAll(tok)
  \/ \E tok \in TokenInputs, p \in Passwords, q \in Passwords :
       AllIdle /\ ChangePassword(tok, p, q)
  \/ \E e \in Emails : AllIdle /\ ForgotPassword(e)
  \/ \E r \in ResetInputs, p \in Passwords : AllIdle /\ ResetPassword(r, p)

SpecSessions == InitLoggedIn /\ [][NextSessions]_vars

\* reset links asked for, used, used again and left to expire
NextReset ==
  \/ \E d \in TickSteps : Tick(d)
  \/ \E e \in Emails \cup {"eve@x.io"} :
       ForgotAdmitted(e, next_reset <= MaxIssued)
  \/ \E r \in 0..MaxIssued, p \in Passwords : ResetPassword(r, p)

SpecReset == InitRegistered /\ [][NextReset]_vars

\* a new request is served by the first free worker
FreeSlot ==
  CHOOSE s \in Slots \cup {NULL} :
    IF AllBusy THEN s = NULL
    ELSE s # NULL /\ reqs[s].op = "idle"
         /\ \A r \in 1..(s - 1) : reqs[r].op # "idle"

\* concurrent requests against an empty database
NextConc ==
  \/ Tick(1)
  \/ \E e \in Emails, u \in RawUsernames, p \in RegisterPasswords :
       ~AllBusy /\ RegisterCheck(FreeSlot, e, u, p)
  \/ \E s \in Slots : RegisterWrite(s)
  \/ \E x \in SessionLoginNames, p \in RegisterPasswords :
       ~AllBusy /\ LoginCheck(FreeSlot, x, p)
  \/ \E s \in Slots : LoginWrite(s)
  \/ \E tok \in TokenInputs : ~AllBusy /\ RefreshCheck(FreeSlot, tok)
  \/ \E s \in Slots : RefreshWrite(s)
  \/ \E tok \in TokenInputs : UploadDataset(tok)
  \/ \E tok \in TokenInputs, d \in DatasetInputs : StartTraining(tok, d)

SpecConc == Init /\ [][NextConc]_vars

\* API keys of logged-in users
NextKeys ==
  \/ \E d \in TickSteps : Tick(d)
  \/ \E tok \in TokenInputs : CreateApiKey(tok)
  \/ \E tok \in TokenInputs, k \in KeyInputs : RevokeApiKey(tok, k)
  \/ \E k \in KeyInputs : ApiKeyAuth(k)
  \/ \E uid \in 1..MaxUsers : DeleteUser(uid)

SpecKeys == InitLoggedIn /\ [][NextKeys]_vars

\* training jobs and inference of logged-in users
NextTrain ==
  \/ \E tok \in TokenInputs, d \in DatasetInputs : StartTraining(tok, d)
  \/ \E tok \in TokenInputs, j \in JobInputs : CancelTrainingJob(tok, j)
  \/ \E t \in 1..MaxJobs : TaskStart(t)
  \/ \E t \in 1..MaxJobs, o \in TrainOutcomes : TaskTrain(t, o)
  \/ \E t \in 1..MaxJobs : TaskComplete(t)
  \/ \E t \in 1..MaxJobs, ok \in BOOLEAN : TaskRegister(t, ok)
  \/ \E t \in 1..MaxJobs : TaskNotify(t)
  \/ \E t \in 1..MaxJobs : TaskExcept(t)
  \/ \E t \in 1..MaxJobs : TaskFinally(t)
  \/ \E tok \in TokenInputs, m \in JobInputs, ex \in BOOLEAN, ok \in BOOLEAN :
       GenerateSummary(tok, m, ex, ok)

SpecTrain == InitLoggedIn /\ [][NextTrain]_vars

\* the importer at work on any one sample, at any time
InitImport ==
  /\ now = 1
  /\ ticks = 0
  /\ users = <<>>
  /\ refresh_tokens = <<>>
  /\ reset_tokens = {}
  /\ next_reset = 1
  /\ email_tokens = {}
  /\ api_keys = <<>>
  /\ datasets = <<>>
  /\ jobs = <<>>
  /\ tasks = <<>>
  /\ user_models = <<>>
  /\ notified = {}
  /\ reqs = [s \in Slots |-> Idle]
  /\ imported \in {[pc |-> "sample", sample |-> x, out |-> <<>>] : x \in Samples}
  /\ translation = NoTranslation
  /\ resp = Pending("init")

NextImport ==
  \/ Tick(1)
  \/ FormatSample

SpecImport == InitImport /\ [][NextImport]_vars

\* jobs started and cancelled while their tasks run; a scheduled task is
\* run by the event loop and each of its steps returns or raises
NextSettle ==
  \/ \E tok \in IssuedAccess, d \in 1..MaxDatasets : StartTraining(tok, d)
  \/ \E tok \in IssuedAccess, j \in 1..MaxJobs : CancelTrainingJob(tok, j)
  \/ \E t \in 1..MaxJobs : TaskStep(t)

SpecSettle ==
  /\ InitLoggedIn
  /\ [][NextSettle]_vars
  /\ \A t \in 1..MaxJobs : WF_vars(TaskStep(t))

\* one call of translate_text, for any text and any two languages
InitTranslate ==
  /\ now = 1
  /\ ticks = 0
  /\ users = <<>>
  /\ refresh_tokens = <<>>
  /\ reset_tokens = {}
  /\ next_reset = 1
  /\ email_tokens = {}
  /\ api_keys = <<>>
  /\ datasets = <<>>
  /\ jobs = <<>>
  /\ tasks = <<>>
  /\ user_models = <<>>
  /\ notified = {}
  /\ reqs = [s \in Slots |-> Idle]
  /\ imported = NoImport
  /\ translation \in
       {[NoTranslation EXCEPT !.pc = "run", !.text = t,
                              !.source_lang = a, !.target_lang = b,
                              !.stack = <<Frame(t, a, b)>>] :
          t \in TextInputs, a \in LanguageInputs, b \in LanguageInputs}
  /\ resp = Pending("init")

NextTranslate ==
  \/ TranslateEnter
  \/ \E ok \in BOOLEAN : TranslateLoad(ok)
  \/ \E ok \in BOOLEAN : TranslateGenerate(ok)

\* a call that was made runs on: translate_text is synchronous
SpecTranslate ==
  InitTranslate /\ [][NextTranslate]_vars /\ WF_vars(NextTranslate)

\* the whole service
Next == NextAuth \/ NextDeleted \/ NextLogin \/ NextSessions
        \/ NextReset \/ NextConc \/ NextKeys \/ NextTrain
        \/ NextImport \/ NextTranslate
        \/ NextSettle

Spec == Init /\ [][Next]_vars

\* ==================================================================== claims
\* a refresh token no stored row of which is usable: every row holding it is
\* revoked, or no row holds it
RevokedOrAbsent(token) ==
  \A i \in 1..Len(refresh_tokens) :
    refresh_tokens[i].token = token => refresh_tokens[i].is_revoked

\* C1: POST /refresh presenting a refresh token whose stored row is revoked,
\* or that has no stored row, is answered 401 "Invalid refresh token", stores
\* no refresh-token row and ends there, so no token pair is created for it;
\* whatever login, refresh, logout, logout-all, change-password and
\* reset-password calls came before.
C1_RevokedRefreshRejected ==
  [][(AllIdle /\ resp'.op = "refresh" /\ RevokedOrAbsent(resp'.tok)) =>
       /\ resp'.status = 401
       /\ resp'.detail = "Invalid refresh token"
       /\ refresh_tokens' = refresh_tokens
       /\ AllIdle']_vars

\* a signed, unexpired refresh token of an active user was refused only
\* because its row is revoked
C1_Witness ==
  /\ resp.op = "refresh"
  /\ resp.status = 401
  /\ \E i \in 1..Len(refresh_tokens) :
       /\ refresh_tokens[i].token = resp.tok
       /\ refresh_tokens[i].is_revoked
       /\ resp.tok.type = "refresh"
       /\ resp.tok.exp >= now
       /\ users[refresh_tokens[i].user_id].status = "active"

\* number of requests between their check and their write
Busy == Cardinality({s \in Slots : reqs[s].op # "idle"})

EmailTaken(email) == \E i \in 1..Len(users) : users[i].email = email

UsernameTaken(username) == \E i \in 1..Len(users) : users[i].username = username

\* C2: a register request whose email is the email of an existing user is
\* answered 400 "Email already registered", and one whose (validated) username
\* is taken 400 "Username already taken"; it creates no user row and no
\* email-verification token and leaves every existing user as it was.
C2_DuplicateRegistrationFails ==
  [][(/\ resp'.op = "register"
      /\ Busy' >= Busy
      /\ EmailTaken(resp'.who[1]) \/ UsernameTaken(resp'.who[2])) =>
       /\ resp'.status = 400
       /\ resp'.detail = IF EmailTaken(resp'.who[1])
                         THEN "Email already registered"
                         ELSE "Username already taken"
       /\ users' = users
       /\ email_tokens' = email_tokens
       /\ reqs' = reqs]_vars

\* a registration was refused for its email while a user holds that email
C2_Witness ==
  /\ resp.op = "register"
  /\ resp.status = 400
  /\ resp.detail = "Email already registered"
  /\ EmailTaken(resp.who[1])
  /\ ~UsernameTaken(resp.who[2])

\* C3: in every reachable state, whatever the interleaving of register, login,
\* refresh and start_training requests, no two users share an email or a
\* username, no two refresh_tokens rows hold the same token string and no two
\* training jobs share a job_id.
C3_Uniqueness ==
  /\ \A i, j \in 1..Len(users) :
       i # j => /\ users[i].email # users[j].email
                /\ users[i].username # users[j].username
  /\ \A i, j \in 1..Len(refresh_tokens) :
       i # j => refresh_tokens[i].token # refresh_tokens[j].token
  /\ \A i, j \in 1..Len(jobs) : i # j => jobs[i].job_id # jobs[j].job_id

\* two registrations passed the check with the same email and the database
\* refused the second insert
C3_Witness ==
  /\ resp.op = "register"
  /\ resp.status = 500
  /\ EmailTaken(resp.who[1])
  /\ Len(refresh_tokens) >= 1

\* the job row of a job_id (job_id is unique, C3)
JobOf(job_id) == get_training_job_by_id(jobs, job_id)

TasksOf(job_id) == {t \in 1..Len(tasks) : tasks[t].job_id = job_id}

Unfinished(t) == tasks[t].pc \notin {"done", "raised"}

\* C4: a successful cancel_training_job sets the job to 'cancelled' and
\* leaves its run_training_task as it was; the task then goes on, and when it
\* reaches a status write on a cancelled job it overwrites 'cancelled' with
\* 'running', 'completed' or 'failed'.
C4_CancelDoesNotStopTask ==
  [][/\ (resp'.op = "cancel_training_job" /\ resp'.status = 200) =>
          /\ jobs'[JobOf(resp'.id)].status = "cancelled"
          /\ tasks' = tasks
          /\ \E t \in TasksOf(resp'.id) : Unfinished(t)
     /\ \A t \in 1..Len(tasks) :
          (resp'.id = tasks[t].job_id /\ tasks'[t] # tasks[t]
           /\ FoundStatus(t) = "cancelled") =>
            /\ resp'.op = "task_start" => FoundStatus(t)' = "running"
            /\ resp'.op = "task_complete" => FoundStatus(t)' = "completed"
            /\ resp'.op = "task_except" => FoundStatus(t)' = "failed"
            /\ resp'.op \in {"task_train", "task_register", "task_notify",
                             "task_finally"} => FoundStatus(t)' = "cancelled"]_vars

\* the task of a job cancelled while pending started afterwards and set the
\* job to 'running'
C4_Witness ==
  /\ resp.op = "task_start"
  /\ resp.detail = "cancelled"
  /\ jobs[JobOf(resp.id)].status = "running"

\* C5: a run_training_task that raised ends with its job row 'failed',
\* error_message equal to the exception text and completed_at set, and it
\* leaves (re-raising) only after its database session is closed; a task that
\* raised nothing does not fail its job.
C5_FailureRecorded ==
  \A t \in 1..Len(tasks) :
    /\ tasks[t].exc # "" => tasks[t].pc \in {"except", "finally", "raised"}
    /\ (tasks[t].exc # "" /\ tasks[t].pc \in {"finally", "raised"}) =>
         /\ jobs[JobOf(tasks[t].job_id)].status = "failed"
         /\ jobs[JobOf(tasks[t].job_id)].error_message = tasks[t].exc
         /\ jobs[JobOf(tasks[t].job_id)].completed_at # NULL
    /\ tasks[t].pc = "raised" => tasks[t].session = "closed" /\ tasks[t].exc # ""
    /\ tasks[t].exc = "" => jobs[JobOf(tasks[t].job_id)].status # "failed"

\* persisting the results raised after the 'completed' commit
C5_Witness ==
  \E t \in 1..Len(tasks) :
    /\ tasks[t].pc = "raised"
    /\ tasks[t].exc = "create_user_model failed"
    /\ jobs[JobOf(tasks[t].job_id)].status = "failed"
    /\ jobs[JobOf(tasks[t].job_id)].model_path # NULL

\* C6: every job has exactly one run_training_task, and a job whose status is
\* 'failed' keeps that status in every step.
C6_NoRetry ==
  [][/\ \A j \in 1..Len(jobs') :
          Cardinality({t \in 1..Len(tasks') :
                         tasks'[t].job_id = jobs'[j].job_id}) = 1
     /\ Len(tasks') = Len(jobs')
     /\ \A j \in 1..Len(jobs) :
          jobs[j].status = "failed" =>
            /\ jobs'[j].status = "failed"
            /\ \A t \in TasksOf(jobs[j].job_id) :
                 tasks[t].pc \in {"finally", "raised"}]_vars

\* a cancel request for a failed job was refused
C6_Witness ==
  /\ resp.op = "cancel_training_job"
  /\ resp.status = 400
  /\ jobs[JobOf(resp.id)].status = "failed"
  /\ \A t \in TasksOf(resp.id) : tasks[t].pc = "raised"

ModelsOf(j) == {m \in 1..Len(user_models) : user_models[m].training_job_id = j}

\* C7: a job is created 'pending'; it becomes 'completed' only in a step of
\* its task, after started_at was set by the 'running' write; a UserModel of
\* the job is created only when the job row is 'completed' with metrics and
\* model_path; the 'training_completed' notification is sent only when that
\* UserModel exists; and a job never has two UserModels.
C7_LinearLifecycle ==
  [][/\ \A j \in 1..Len(jobs') :
          /\ j > Len(jobs) => /\ jobs'[j].status = "pending"
                              /\ jobs'[j].started_at = NULL
          /\ (j <= Len(jobs) /\ jobs'[j].status = "completed"
              /\ jobs[j].status # "completed") =>
               /\ resp'.op = "task_complete"
               /\ jobs[j].started_at # NULL
               /\ jobs[j].status \in {"running", "cancelled"}
          /\ (j <= Len(jobs) /\ jobs'[j].status = "running"
              /\ jobs[j].status # "running") =>
               /\ jobs[j].status \in {"pending", "cancelled"}
               /\ jobs'[j].started_at # NULL
          /\ Cardinality({m \in 1..Len(user_models') :
                            user_models'[m].training_job_id = j}) <= 1
     /\ \A m \in 1..Len(user_models') :
          m > Len(user_models) =>
            /\ jobs[user_models'[m].training_job_id].status = "completed"
            /\ jobs[user_models'[m].training_job_id].metrics # ""
            /\ jobs[user_models'[m].training_job_id].model_path
                 = user_models'[m].model_path
     /\ \A n \in notified' \ notified :
          n.type = "training_completed" => ModelsOf(JobOf(n.job_id)) # {}]_vars

\* a task went through all its steps
C7_Witness ==
  \E j \in 1..Len(jobs) :
    /\ jobs[j].status = "completed"
    /\ ModelsOf(j) # {}
    /\ [job_id |-> jobs[j].job_id, type |-> "training_completed"] \in notified

\* C8: a start_training request of a user for a dataset of theirs is answered
\* 200, appends one 'pending' job and schedules one task for it, whatever the
\* number of that user's jobs already pending or running.
C8_NoAdmissionControl ==
  [][(/\ resp'.op = "start_training"
      /\ get_current_user(resp'.tok) # NULL
      /\ get_user_dataset(resp'.id, get_current_user(resp'.tok)) # NULL) =>
       /\ resp'.status = 200
       /\ Len(jobs') = Len(jobs) + 1
       /\ jobs'[Len(jobs')].status = "pending"
       /\ jobs'[Len(jobs')].user_id = get_current_user(resp'.tok)
       /\ Len(tasks') = Len(tasks) + 1
       /\ tasks'[Len(tasks')].job_id = jobs'[Len(jobs')].job_id
       /\ tasks'[Len(tasks')].pc = "start"]_vars

\* a job was admitted while the same user had MaxJobs - 1 jobs pending or
\* running
C8_Witness ==
  /\ resp.op = "start_training"
  /\ resp.status = 200
  /\ Len(jobs) >= 2
  /\ \A j \in 1..Len(jobs) :
       /\ jobs[j].user_id = jobs[1].user_id
       /\ jobs[j].status \in {"pending", "running"}

\* C9: generate_summary answers 404 "Model not found or access denied" when
\* model_path is not a model of the current user, 404 "Model file not found"
\* when the path is not on disk, and 500 only when the trainer or the
\* generation itself failed.
C9_NotFoundIs404 ==
  (resp.op = "generate_summary" /\ get_current_user(resp.tok) # NULL) =>
    /\ get_user_model_by_path(resp.id, get_current_user(resp.tok)) = NULL =>
         /\ resp.status = 404
         /\ resp.detail = "Model not found or access denied"
    /\ resp.status \in {200, 404, 500}
    /\ resp.status = 404 =>
         resp.detail \in {"Model not found or access denied",
                          "Model file not found"}
    /\ resp.status = 500 =>
         resp.detail = "Error generating summary: generation failed"

\* the key rows a presented key string may authenticate with
Authenticates(k) ==
  /\ api_keys[k].is_active
  /\ api_keys[k].expires_at = NULL \/ api_keys[k].expires_at >= now
  /\ get_user_by_id(api_keys[k].user_id) # NULL
  /\ users[api_keys[k].user_id].status = "active"

Inactive(uid) == get_user_by_id(uid) # NULL /\ users[uid].status = "inactive"

\* the user a login request names, when the password presented is theirs
LoginUser(who) ==
  LET uid == get_user_by_username_or_email(who[1])
  IN IF uid # NULL /\ verify_password(who[2], users[uid].hashed_password)
     THEN uid ELSE NULL

\* C11: delete_user keeps the row and only sets its status to inactive; an
\* inactive user stays inactive; a login with the correct password of an
\* inactive user is answered 403 and stores nothing; /refresh with a refresh
\* token of an inactive user is answered 401 and stores nothing;
\* get_current_user gives no user for an access token of an inactive user, so
\* the handlers behind it do nothing; api_key_auth answers 401 for an active
\* key of an inactive user.
C11_SoftDelete ==
  [][/\ (resp'.op = "delete_user" /\ resp'.status = 200) =>
          users' = [users EXCEPT ![resp'.id].status = "inactive"]
     /\ \A u \in 1..Len(users) : Inactive(u) => Inactive(u)'
     /\ (/\ resp'.op = "login"
         /\ LoginUser(resp'.who) # NULL
         /\ Inactive(LoginUser(resp'.who))) =>
          /\ resp'.status = 403
          /\ UNCHANGED <<users, refresh_tokens, reqs>>
     /\ (/\ resp'.op = "refresh"
         /\ resp'.tok.type = "refresh"
         /\ Inactive(resp'.tok.user_id)) =>
          /\ resp'.status = 401
          /\ UNCHANGED <<users, refresh_tokens, reqs>>
     /\ \A tok \in TokenInputs :
          (tok.type = "access" /\ Inactive(tok.user_id)) =>
            get_current_user(tok) = NULL
     /\ (/\ resp'.op \in {"logout_all", "create_api_key"}
         /\ resp'.tok.type = "access"
         /\ Inactive(resp'.tok.user_id)) =>
          /\ resp'.status = 500
          /\ UNCHANGED <<users, refresh_tokens, api_keys>>
     /\ (/\ resp'.op = "api_key_auth"
         /\ \E k \in 1..Len(api_keys) :
              /\ api_keys[k].key = resp'.id
              /\ api_keys[k].is_active
              /\ Inactive(api_keys[k].user_id)) =>
          /\ resp'.status = 401
          /\ resp'.who = NoName
          /\ api_keys' = api_keys]_vars

\* a deactivated user who holds a live refresh token and an active API key
\* logged in with the correct password and was refused
C11_Witness ==
  /\ resp.op = "login"
  /\ resp.status = 403
  /\ LoginUser(resp.who) # NULL
  /\ \E i \in 1..Len(refresh_tokens) :
       /\ refresh_tokens[i].user_id = LoginUser(resp.who)
       /\ ~refresh_tokens[i].is_revoked
       /\ refresh_tokens[i].expires_at >= now
  /\ \E k \in 1..Len(api_keys) :
       /\ api_keys[k].user_id = LoginUser(resp.who)
       /\ api_keys[k].is_active

\* position before the first character of the i-th source in the joined text
RECURSIVE Offset(_, _)
Offset(list, i) ==
  IF i = 1 THEN 0 ELSE Offset(list, i - 1) + Len(list[i - 1]) + 1

\* text is the sources in order with exactly one space between neighbours
IsJoined(text, list) ==
  IF Len(list) = 0 THEN text = <<>>
  ELSE /\ Len(text) = Offset(list, Len(list)) + Len(list[Len(list)])
       /\ \A i \in 1..Len(list) :
            /\ \A k \in 1..Len(list[i]) :
                 text[Offset(list, i) + k] = list[i][k]
            /\ i < Len(list) =>
                 text[Offset(list, i) + Len(list[i]) + 1] = " "

FirstNonEmpty(a, b, c) ==
  IF a # "" THEN a ELSE IF b # "" THEN b ELSE c

\* C12: for a multi_lexsum sample whose sources are a list, _format_sample
\* returns None exactly when the sources joined by single spaces are fewer
\* than 10 characters (or none); otherwise text is the sources in order joined
\* by single spaces, summary_long, summary_short and summary_tiny are the
\* sample's, summary is the first non-empty of them and sources_count is the
\* number of sources.
C12_FormatMultiLexsum ==
  (/\ imported.pc = "formatted"
   /\ imported.sample.dataset_id = "multi_lexsum"
   /\ imported.sample.is_list) =>
    LET x == imported.sample
        n == Len(x.sources)
        joined == IF n = 0 THEN 0
                  ELSE Offset(x.sources, n) + Len(x.sources[n])
    IN IF joined < 10
       THEN imported.out = <<>>
       ELSE /\ Len(imported.out) = 1
            /\ IsJoined(imported.out[1].text, x.sources)
            /\ imported.out[1].summary_long = x.long
            /\ imported.out[1].summary_short = x.short
            /\ imported.out[1].summary_tiny = x.tiny
            /\ imported.out[1].summary = FirstNonEmpty(x.long, x.short, x.tiny)
            /\ imported.out[1].sources_count = n

\* two sources of 4 and 5 characters give a text of exactly 10, with the
\* summary taken from the short one because the long one is empty
C12_Witness ==
  /\ imported.pc = "formatted"
  /\ imported.sample.dataset_id = "multi_lexsum"
  /\ imported.sample.is_list
  /\ Len(imported.sample.sources) = 2
  /\ Len(imported.out) = 1
  /\ Len(imported.out[1].text) = 10
  /\ imported.sample.long = ""
  /\ imported.out[1].summary = "short"

\* C13: a successful POST /refresh marks the row of the presented token
\* revoked (it was not revoked before), appends exactly one non-revoked row
\* for the same user and leaves every other row as it was; rows are never
\* removed and a revoked row stays revoked, so a token that was redeemed
\* once is never redeemed again.
C13_RefreshRotates ==
     [][/\ (resp'.op = "refresh" /\ resp'.status = 200) =>
            LET i == get_refresh_token(resp'.tok)
                n == Len(refresh_tokens)
            IN /\ i # NULL
               /\ ~refresh_tokens[i].is_revoked
               /\ Len(refresh_tokens') = n + 1
               /\ refresh_tokens'[i] =
                    [refresh_tokens[i] EXCEPT !.is_revoked = TRUE]
               /\ \A j \in 1..n : j # i => refresh_tokens'[j] = refresh_tokens[j]
               /\ refresh_tokens'[n + 1].user_id = refresh_tokens[i].user_id
               /\ ~refresh_tokens'[n + 1].is_revoked
               /\ \A j \in 1..n :
                    refresh_tokens'[n + 1].token # refresh_tokens[j].token
               /\ UNCHANGED users
        /\ Len(refresh_tokens') >= Len(refresh_tokens)
        /\ \A j \in 1..Len(refresh_tokens) :
             /\ refresh_tokens'[j].token = refresh_tokens[j].token
             /\ refresh_tokens[j].is_revoked => refresh_tokens'[j].is_revoked
       ]_vars

\* a token is redeemed while the other user holds a revoked and a live row
C13_Witness ==
  /\ resp.op = "refresh" /\ resp.status = 200
  /\ Len(refresh_tokens) = 4
  /\ \E i, j, k \in 1..3 :
       /\ refresh_tokens[i].token = resp.tok /\ refresh_tokens[i].is_revoked
       /\ refresh_tokens[j].user_id # refresh_tokens[i].user_id
       /\ refresh_tokens[j].is_revoked
       /\ refresh_tokens[k].user_id = refresh_tokens[j].user_id
       /\ ~refresh_tokens[k].is_revoked
       /\ refresh_tokens[4].user_id = refresh_tokens[i].user_id

\* the user a successful logout-all, change-password or reset-password is for
EndedFor(r) ==
  IF r.op = "reset_password"
  THEN (CHOOSE x \in get_password_reset_token(r.id) : TRUE).user_id
  ELSE get_current_user(r.tok)

\* the table with exactly the row of the token revoked
OnlyRevoked(token) ==
  LET i == get_refresh_token(token)
  IN [refresh_tokens EXCEPT ![i].is_revoked = TRUE]

\* C14: a successful logout-all, change-password or reset-password for user u
\* leaves every refresh-token row of u revoked, so that none of u's tokens
\* is accepted at /refresh afterwards, and leaves the rows of the other users
\* as they were; logout revokes only the row of the presented token, and
\* answers 400 without changing anything when no row holds it.
C14_SessionsEnded ==
  [][/\ (/\ resp'.op \in {"logout_all", "change_password", "reset_password"}
         /\ resp'.status = 200) =>
          LET u == EndedFor(resp')
          IN /\ Len(refresh_tokens') = Len(refresh_tokens)
             /\ \A j \in 1..Len(refresh_tokens) :
                  IF refresh_tokens[j].user_id = u
                  THEN /\ refresh_tokens'[j] =
                            [refresh_tokens[j] EXCEPT !.is_revoked = TRUE]
                       /\ get_current_user_from_refresh_token(
                            refresh_tokens[j].token)' = NULL
                  ELSE refresh_tokens'[j] = refresh_tokens[j]
     /\ resp'.op = "logout" =>
          IF get_refresh_token(resp'.tok) = NULL
          THEN /\ resp'.status = 400
               /\ UNCHANGED <<authVars, api_keys, trainVars>>
          ELSE /\ resp'.status = 200
               /\ refresh_tokens' = OnlyRevoked(resp'.tok)
               /\ UNCHANGED users
    ]_vars

\* logout-all of a user who held a revoked and a live row, while the other
\* user keeps a live one
C14_Witness ==
  /\ resp.op = "logout_all" /\ resp.status = 200
  /\ Len(refresh_tokens) = 3
  /\ \E i, j, k \in 1..3 :
       /\ i # j
       /\ refresh_tokens[i].user_id = resp.tok.user_id
       /\ refresh_tokens[j].user_id = resp.tok.user_id
       /\ refresh_tokens[i].is_revoked /\ refresh_tokens[j].is_revoked
       /\ refresh_tokens[k].user_id # resp.tok.user_id
       /\ ~refresh_tokens[k].is_revoked

\* the stored reset tokens a reset_password would accept
Usable(token) ==
  {r \in reset_tokens : r.token = token /\ ~r.is_used /\ r.expires_at > now}

\* C15: a user holds at most one reset token; forgot-password for a user
\* replaces every earlier token of that user by one new token, so that no
\* earlier token resets the password any more; reset_password answers 200
\* exactly for a stored, unused, unexpired token, then sets the password and
\* marks the token used; otherwise it answers 400 and changes nothing, and
\* a used token stays used, so the same token never succeeds twice.
C15_ResetTokenSingleUse ==
  [][/\ \A a, b \in reset_tokens' : a.user_id = b.user_id => a = b
     /\ (resp'.op = "forgot_password"
         /\ get_user_by_email(resp'.who[1]) # NULL) =>
          LET u == get_user_by_email(resp'.who[1])
          IN /\ \E r \in reset_tokens' \ reset_tokens :
                  /\ r.user_id = u /\ ~r.is_used
                  /\ \A o \in reset_tokens : o.token # r.token
                  /\ reset_tokens' =
                       {o \in reset_tokens : o.user_id # u} \cup {r}
             /\ \A o \in reset_tokens :
                  o.user_id = u => get_password_reset_token(o.token)' = {}
     /\ resp'.op = "reset_password" =>
          IF Usable(resp'.id) = {}
          THEN /\ resp'.status = 400
               /\ UNCHANGED <<authVars, api_keys, trainVars>>
          ELSE LET r == CHOOSE x \in Usable(resp'.id) : TRUE
               IN /\ resp'.status = 200
                  /\ users' = [users EXCEPT ![r.user_id].hashed_password =
                                 get_password_hash(resp'.who[2])]
                  /\ reset_tokens' =
                       (reset_tokens \ {r}) \cup {[r EXCEPT !.is_used = TRUE]}
                  /\ \A t \in 0..MaxIssued : t = resp'.id => Usable(t)' = {}
     /\ \A o \in reset_tokens : \A n \in reset_tokens' :
          (o.token = n.token /\ o.is_used) => n.is_used
    ]_vars

\* a second reset with a token that was used: refused, while the user asked
\* for a reset link twice before
C15_Witness ==
  /\ resp.op = "reset_password" /\ resp.status = 400
  /\ \E r \in reset_tokens :
       /\ r.token = resp.id /\ r.is_used /\ r.expires_at > now
       /\ r.token > 1
       /\ users[r.user_id].hashed_password # get_password_hash(resp.who[2])

\* the response of forgot-password, whatever the email and the users table
ForgotAnswer ==
  RespWho("forgot_password", 200,
          "If the email exists, a reset link will be sent", NoName)

\* C16: the response of forgot-password (status and message) is the same for
\* every email and every users table, so it is the same in two runs that
\* differ only in whether the email belongs to a user; a reset token is
\* stored exactly when the email belongs to a user, and nothing is stored
\* or changed otherwise.
C16_ForgotPasswordSilent ==
  [][resp'.op = "forgot_password" =>
       /\ [resp' EXCEPT !.who = NoName] = ForgotAnswer
       /\ IF get_user_by_email(resp'.who[1]) = NULL
          THEN UNCHANGED <<authVars, api_keys, trainVars>>
          ELSE /\ \E r \in reset_tokens' \ reset_tokens :
                    r.user_id = get_user_by_email(resp'.who[1])
               /\ UNCHANGED <<users, refresh_tokens, email_tokens>>
    ]_vars

\* an email of nobody asked for after a registered user got a reset token
C16_Witness ==
  /\ resp.op = "forgot_password" /\ resp.status = 200
  /\ get_user_by_email(resp.who[1]) = NULL
  /\ reset_tokens # {}

\* C17: a login with an unknown name or a wrong password is answered 401
\* "Invalid credentials", one with the right password of a user who is not
\* active 403, and none of them changes last_login or the refresh tokens;
\* only a login answered 200 changes last_login or the refresh tokens, and
\* it sets last_login and stores exactly one new row.
C17_FailedLoginChangesNothing ==
  [][resp'.op = "login" =>
       LET uid == get_user_by_username_or_email(resp'.who[1])
           known == uid # NULL
           right == known /\ verify_password(resp'.who[2],
                                             users[uid].hashed_password)
       IN /\ (~known \/ ~right) =>
               /\ resp'.status = 401
               /\ resp'.detail = "Invalid credentials"
               /\ UNCHANGED <<users, refresh_tokens>>
          /\ (right /\ users[uid].status # "active") =>
               /\ resp'.status = 403
               /\ UNCHANGED <<users, refresh_tokens>>
          /\ (users' # users \/ refresh_tokens' # refresh_tokens) =>
               /\ resp'.status = 200
               /\ users' = [users EXCEPT ![uid].last_login = now]
               /\ \E row \in {refresh_tokens'[Len(refresh_tokens')]} :
                    /\ refresh_tokens' = Append(refresh_tokens, row)
                    /\ row.user_id = uid /\ ~row.is_revoked
    ]_vars

\* C18: verify_token gives a payload only for a token of the expected type;
\* a refresh token is no user to get_current_user, and a handler behind it
\* that is given one changes nothing; an access token at /refresh is
\* answered 401 and nothing is revoked or created.
C18_TokenKinds ==
  [][/\ \A tok \in TokenInputs : \A ty \in {"access", "refresh"} :
          verify_token(tok, ty) # NULL => tok.type = ty
     /\ \A tok \in TokenInputs :
          tok.type = "refresh" => get_current_user(tok) = NULL
     /\ (resp'.op \in {"logout_all", "change_password"}
         /\ resp'.tok.type = "refresh") =>
          /\ resp'.status = 500
          /\ UNCHANGED <<authVars, api_keys, trainVars>>
     /\ (resp'.op = "refresh" /\ resp'.tok.type = "access") =>
          /\ resp'.status = 401
          /\ UNCHANGED <<authVars, api_keys, trainVars, reqs>>
    ]_vars

\* a valid access token of a user with a live refresh token, sent to /refresh
C18_Witness ==
  /\ resp.op = "refresh" /\ resp.status = 401
  /\ resp.tok.type = "access"
  /\ get_current_user(resp.tok) # NULL
  /\ \E i \in 1..Len(refresh_tokens) :
       /\ refresh_tokens[i].user_id = resp.tok.user_id
       /\ ~refresh_tokens[i].is_revoked

\* rows of the jobs table with this job_id that belong to the user
JobsOfUser(job_id, uid) ==
  {j \in 1..Len(jobs) : jobs[j].job_id = job_id /\ jobs[j].user_id = uid}

\* C19: cancel_training_job by a user answers 404 and changes no job when
\* job_id is not a job of that user, 400 and no change when the job is
\* completed, failed or cancelled, and 200 for a pending or running job, of
\* which it then changes status (to 'cancelled') and updated_at and nothing
\* else; no other job changes.
C19_CancelOnlyUnfinished ==
  [][(resp'.op = "cancel_training_job"
      /\ get_current_user(resp'.tok) # NULL) =>
       LET mine == JobsOfUser(resp'.id, get_current_user(resp'.tok))
       IN IF mine = {}
          THEN /\ resp'.status = 404
               /\ UNCHANGED <<authVars, api_keys, trainVars>>
          ELSE \A j \in mine :
                 IF jobs[j].status \in {"completed", "failed", "cancelled"}
                 THEN /\ resp'.status = 400
                      /\ UNCHANGED <<authVars, api_keys, trainVars>>
                 ELSE /\ jobs[j].status \in {"pending", "running"}
                      /\ resp'.status = 200
                      /\ Len(jobs') = Len(jobs)
                      /\ jobs'[j].status = "cancelled"
                      /\ \A f \in DOMAIN jobs[j] \ {"status", "updated_at"} :
                           jobs'[j][f] = jobs[j][f]
                      /\ \A k \in 1..Len(jobs) : k # j => jobs'[k] = jobs[k]
                      /\ UNCHANGED <<authVars, api_keys, datasets, tasks,
                                     user_models, notified>>
    ]_vars

\* a user tries to cancel the own job that has completed, while another
\* job of theirs is cancelled already
C19_Witness ==
  /\ resp.op = "cancel_training_job" /\ resp.status = 400
  /\ \E j, k \in 1..Len(jobs) :
       /\ jobs[j].job_id = resp.id
       /\ jobs[j].user_id = resp.tok.user_id
       /\ jobs[j].status = "completed"
       /\ jobs[k].user_id = resp.tok.user_id
       /\ jobs[k].status = "cancelled"

\* C20: start_training by a user for a dataset_id that is not a dataset of
\* that user answers 404 and creates no job and no task; for a dataset of
\* the user it answers 200, appends exactly one job row, pending, with a
\* job_id no other row has, and schedules exactly one task for that job_id.
C20_StartTraining ==
  [][(resp'.op = "start_training"
      /\ get_current_user(resp'.tok) # NULL) =>
       LET uid == get_current_user(resp'.tok)
           d == resp'.id
       IN IF ~(d \in 1..Len(datasets) /\ datasets[d].user_id = uid)
          THEN /\ resp'.status = 404
               /\ UNCHANGED <<authVars, api_keys, trainVars>>
          ELSE /\ resp'.status = 200
               /\ \E row \in {jobs'[Len(jobs')]} :
                    /\ jobs' = Append(jobs, row)
                    /\ row.status = "pending"
                    /\ row.user_id = uid /\ row.dataset_id = d
                    /\ \A k \in 1..Len(jobs) : jobs[k].job_id # row.job_id
                    /\ \E t \in {tasks'[Len(tasks')]} :
                         /\ tasks' = Append(tasks, t)
                         /\ t.job_id = row.job_id /\ t.user_id = uid
                         /\ \A k \in 1..Len(tasks) :
                              tasks[k].job_id # row.job_id
               /\ UNCHANGED <<authVars, api_keys, datasets, user_models>>
    ]_vars

\* a user who has a job already asks to train on the other user's dataset
C20_Witness ==
  /\ resp.op = "start_training" /\ resp.status = 404
  /\ get_current_user(resp.tok) # NULL
  /\ resp.id \in 1..Len(datasets)
  /\ datasets[resp.id].user_id # resp.tok.user_id
  /\ \E j \in 1..Len(jobs) : jobs[j].user_id = resp.tok.user_id
  /\ Len(tasks) = Len(jobs)

\* the name of the model of a direct pair
ModelOf(a, b) == "Helsinki-NLP/opus-mt-" \o a \o "-" \o b

Finished == translation.pc \in {"returned", "raised"}

\* C21: every call of translate_text ends, by a return or an exception. With
\* source equal to target it returns the input and touches no model; for a
\* pair that is not in TRANSLATION_MODELS it raises ValueError and loads no
\* model; for a 'pivot' pair there are never more than two frames, the
\* second frame is a direct pair to or from 'en', and a call that returns
\* has run the two models of its legs in order; no call loads or runs more
\* than two models.
C21_TranslateTerminates ==
  /\ [](translation.pc # "none" =>
        LET a == translation.source_lang
            b == translation.target_lang
            n == Len(translation.stack)
        IN /\ n <= 2
           /\ translation.invoked <= 2
           /\ Len(translation.loaded) <= 2
           /\ a = b =>
                /\ n <= 1 /\ translation.pc # "raised"
                /\ translation.loaded = <<>> /\ translation.invoked = 0
                /\ Finished => translation.out = <<translation.text>>
           /\ (a # b /\ <<a, b>> \notin DirectPairs \cup PivotPairs) =>
                /\ n <= 1 /\ translation.pc # "returned"
                /\ translation.loaded = <<>> /\ translation.invoked = 0
                /\ Finished =>
                     translation.error =
                       "Translation not supported for " \o a \o "-" \o b
           /\ <<a, b>> \in DirectPairs =>
                /\ n <= 1
                /\ translation.invoked <= 1
                /\ translation.pc = "returned" =>
                     translation.out =
                       <<Append(translation.text, ModelOf(a, b))>>
           /\ <<a, b>> \in PivotPairs =>
                /\ n = 2 =>
                     LET leg == <<translation.stack[2].source_lang,
                                  translation.stack[2].target_lang>>
                     IN /\ leg \in {<<a, "en">>, <<"en", b>>}
                        /\ leg \in DirectPairs
                        /\ translation.stack[1].at \in {"leg1", "leg2"}
                /\ translation.pc = "returned" =>
                     /\ translation.invoked = 2
                     /\ translation.out =
                          <<translation.text
                              \o <<ModelOf(a, "en"), ModelOf("en", b)>> >>)
  /\ <>Finished

\* a text went from Hindi to Tamil through the two models of the pivot
C21_Witness ==
  /\ translation.pc = "returned"
  /\ translation.source_lang = "hi" /\ translation.target_lang = "ta"
  /\ translation.invoked = 2
  /\ translation.loaded =
       <<"Helsinki-NLP/opus-mt-hi-en", "Helsinki-NLP/opus-mt-en-ta">>
  /\ translation.out =
       <<<<"deed", "Helsinki-NLP/opus-mt-hi-en", "Helsinki-NLP/opus-mt-en-ta">>>>

Settled(j) == j <= Len(jobs) /\ jobs[j].status \in {"completed", "failed"}

\* C22: when the scheduled task is run and each of its steps returns or
\* raises, every job start_training created is from some point on
\* 'completed' or 'failed' for good, cancelled in between or not; none
\* stays 'pending', 'running' or 'cancelled'.
C22_JobsSettle ==
  \A j \in 1..MaxJobs : (j <= Len(jobs)) ~> []Settled(j)

\* the task found its job cancelled and went on to mark it completed
C22_Witness ==
  /\ resp.op = "task_complete" /\ resp.detail = "cancelled"
  /\ \E j \in 1..Len(jobs) :
       /\ jobs[j].job_id = resp.id
       /\ jobs[j].status = "completed"

====
